---- MODULE Spec2Model ----
(***************************************************************************)
(* ip_tracking: the block registry (models.BlockedIP), the request log     *)
(* (models.RequestLog), the suspicion flags (models.SuspiciousIP), the     *)
(* periodic tasks of tasks.py and the bulk actions of admin.py.            *)
(*                                                                         *)
(* Time is counted in whole hours.  Text that the code searches            *)
(* (request paths, flag reasons) is a sequence of characters; text that    *)
(* the code only tests for emptiness (block reason, blocked_by) is a       *)
(* string.                                                                 *)
(***************************************************************************)
EXTENDS Integers, Sequences, FiniteSets, TLC

VARIABLES
    now,          \* timezone.now(), in hours
    BlockedIP,    \* the rows of the BlockedIP table
    RequestLog,   \* the rows of the RequestLog table: row -> how many such rows
    SuspiciousIP, \* the rows of the SuspiciousIP table, in creation order
    BlockedAttempt, \* the rows of the BlockedAttempt table, in creation order;
                  \* blocked_ip is the ip_address of the BlockedIP row referenced
    calls,        \* the calls that run concurrently, each at one of its queries
    last          \* the last call: its name, its arguments, the rows it fetched
                  \* (found) and the value it returned

vars == <<now, BlockedIP, RequestLog, SuspiciousIP, BlockedAttempt, calls, last>>

----------------------------------------------------------------------------
(* Bounds of the exploration *)

\* the clock is read at the hours 0..MaxNow
MaxNow == 2
\* at most this many batches of requests are in the log
MaxBatches == 2
\* extend_24h is not explored beyond this expiry
MaxExpiry == 30
\* at most this many attempts are recorded
MaxAttempts == 3

----------------------------------------------------------------------------
(* Inputs *)

IPs == {"1.2.3.4", "5.6.7.8"}

\* the order in which a grouped query yields the ips
IpOrder == <<"1.2.3.4", "5.6.7.8">>

Reasons == {"", "abuse"}

Issuers == {"", "admin"}

\* null=True: expires_at of a permanent block
None == -1

\* duration_hours=None (or 0): falsy, a permanent block
NoDuration == 0

Durations == {NoDuration, 1}

\* the hours at which the clock is read
Instants == 0..MaxNow

\* request paths, as characters
path_admin_x == <<"/", "a", "d", "m", "i", "n", "/", "x">>

path_api == <<"/", "a", "p", "i", "/", "a", "u", "t", "h", "/", "t", "o", "k", "e", "n">>

path_home == <<"/", "h", "o", "m", "e">>

Paths == {path_admin_x, path_api, path_home}

\* how many requests of one ip to one path arrive within one hour
BatchSizes == {10, 11, 90}

\* the requests of one ip within one hour: path -> number of requests
Bursts ==
    { [path \in {path_api} |-> 11],
      [path \in {path_admin_x, path_api} |-> IF path = path_admin_x THEN 101 ELSE 11] }

----------------------------------------------------------------------------
(* models.BlockedIP *)

\* cls.objects.get(ip_address=ip): the matching rows (none: DoesNotExist)
GetBlocked(table, ip) == {r \in table : r.ip_address = ip}

is_expired_never(row, t) == FALSE

is_expired(row, t) ==
    IF row.expires_at = None THEN FALSE ELSE t > row.expires_at

is_blocked_no_reap(table, ip, t) ==
    LET found == GetBlocked(table, ip)
    IN  [ret |-> \E r \in found : ~is_expired(r, t), table |-> table]

\* is_blocked(ip) at time t: the value returned and the table afterwards
is_blocked(table, ip, t) ==
    LET found == GetBlocked(table, ip)
    IN  IF found = {} THEN [ret |-> FALSE, table |-> table]
        ELSE LET blocked == CHOOSE r \in found : TRUE
             IN  IF is_expired(blocked, t)
                 THEN [ret |-> FALSE, table |-> table \ {blocked}]
                 ELSE [ret |-> TRUE, table |-> table]

\* reason or blocked.reason
OrElse(new, old) == IF new # "" THEN new ELSE old

block_ip_keep_expiry(table, ip, reason, blocked_by, duration_hours, t) ==
    LET expires_at == IF duration_hours # NoDuration THEN t + duration_hours ELSE None
        found == GetBlocked(table, ip)
    IN  IF found = {}
        THEN LET row == [ip_address |-> ip, reason |-> reason,
                         blocked_by |-> blocked_by, expires_at |-> expires_at]
             IN  [ret |-> row, created |-> TRUE, table |-> table \cup {row}]
        ELSE LET blocked == CHOOSE r \in found : TRUE
                 row == [blocked EXCEPT !.reason = OrElse(reason, @),
                                        !.blocked_by = OrElse(blocked_by, @),
                                        !.expires_at = IF expires_at = None THEN @ ELSE expires_at]
             IN  [ret |-> row, created |-> FALSE,
                  table |-> (table \ {blocked}) \cup {row}]

block_ip_overwrite(table, ip, reason, blocked_by, duration_hours, t) ==
    LET expires_at == IF duration_hours # NoDuration THEN t + duration_hours ELSE None
        found == GetBlocked(table, ip)
        row == [ip_address |-> ip, reason |-> reason,
                blocked_by |-> blocked_by, expires_at |-> expires_at]
    IN  [ret |-> row, created |-> found = {}, table |-> (table \ found) \cup {row}]

block_ip_always_create(table, ip, reason, blocked_by, duration_hours, t) ==
    LET expires_at == IF duration_hours # NoDuration THEN t + duration_hours ELSE None
        row == [ip_address |-> ip, reason |-> reason,
                blocked_by |-> blocked_by, expires_at |-> expires_at]
    IN  [ret |-> row, created |-> TRUE, table |-> table \cup {row}]

\* block_ip(ip, reason, blocked_by, duration_hours) at time t
block_ip(table, ip, reason, blocked_by, duration_hours, t) ==
    LET expires_at == IF duration_hours # NoDuration THEN t + duration_hours ELSE None
        found == GetBlocked(table, ip)
    IN  IF found = {}
        THEN LET row == [ip_address |-> ip, reason |-> reason,
                         blocked_by |-> blocked_by, expires_at |-> expires_at]
             IN  [ret |-> row, created |-> TRUE, table |-> table \cup {row}]
        ELSE LET blocked == CHOOSE r \in found : TRUE
                 row == [blocked EXCEPT !.reason = OrElse(reason, @),
                                        !.blocked_by = OrElse(blocked_by, @),
                                        !.expires_at = expires_at]
             IN  [ret |-> row, created |-> FALSE,
                  table |-> (table \ {blocked}) \cup {row}]

unblock_ip_keep(table, ip) ==
    [ret |-> GetBlocked(table, ip) # {}, table |-> table]

\* unblock_ip(ip)
unblock_ip(table, ip) ==
    LET found == GetBlocked(table, ip)
    IN  IF found = {} THEN [ret |-> FALSE, table |-> table]
        ELSE LET blocked == CHOOSE r \in found : TRUE
             IN  [ret |-> TRUE, table |-> table \ {blocked}]

----------------------------------------------------------------------------
(* admin.BlockedIPAdmin: the bulk actions on the selected rows (queryset) *)

\* queryset.update(expires_at=None); the count reported
make_permanent(table, queryset) ==
    [ret |-> Cardinality(queryset),
     table |-> (table \ queryset) \cup {[r EXCEPT !.expires_at = None] : r \in queryset}]

HoursExtended == 24

Extended(blocked, t) ==
    IF blocked.expires_at # None
    THEN [blocked EXCEPT !.expires_at = @ + HoursExtended]
    ELSE [blocked EXCEPT !.expires_at = t + HoursExtended]

\* extend_24h: every selected row is saved with its new expiry
extend_24h(table, queryset, t) ==
    [ret |-> Cardinality(queryset),
     table |-> (table \ queryset) \cup {Extended(r, t) : r \in queryset}]

\* remove_blocks: queryset.count(), then queryset.delete()
remove_blocks(table, queryset) ==
    [ret |-> Cardinality(queryset), table |-> table \ queryset]

----------------------------------------------------------------------------
(* models.BlockedAttempt *)

\* the ips whose row was deleted between two states of the table
Deleted(before, after) ==
    {r.ip_address : r \in before} \ {r.ip_address : r \in after}

BlockedAttempt_keep(attempts, ips) == attempts

\* on_delete=models.CASCADE: the attempts left when the rows of ips are deleted
BlockedAttempt_cascade(attempts, ips) ==
    LET Kept(a) == a.blocked_ip \notin ips
    IN  SelectSeq(attempts, Kept)

----------------------------------------------------------------------------
(* Text *)

Digit(d) ==
    CASE d = 0 -> "0" [] d = 1 -> "1" [] d = 2 -> "2" [] d = 3 -> "3"
      [] d = 4 -> "4" [] d = 5 -> "5" [] d = 6 -> "6" [] d = 7 -> "7"
      [] d = 8 -> "8" [] d = 9 -> "9"

\* the f-string's {count}: the decimal digits of a natural number
RECURSIVE Str(_)
Str(n) == IF n < 10 THEN <<Digit(n)>> ELSE Append(Str(n \div 10), Digit(n % 10))

\* path__startswith=prefix
StartsWith(text, prefix) ==
    /\ Len(text) >= Len(prefix)
    /\ SubSeq(text, 1, Len(prefix)) = prefix

\* reason__contains=part
Contains(text, part) ==
    \E i \in 1..(Len(text) - Len(part) + 1) : SubSeq(text, i, i + Len(part) - 1) = part

----------------------------------------------------------------------------
(* tasks.detect_anomalies *)

\* timedelta(hours=1)
WindowHours == 1

\* count__gt=100
VolumeThreshold == 100

\* count__gt=10
PathThreshold == 10

sensitive_paths ==
    << <<"/", "a", "d", "m", "i", "n">>,
       <<"/", "l", "o", "g", "i", "n">>,
       <<"/", "a", "p", "i", "/", "a", "u", "t", "h">> >>

\* f'High request volume: {count} requests in last hour'
VolumeReason(count) ==
    <<"H", "i", "g", "h", " ", "r", "e", "q", "u", "e", "s", "t", " ",
      "v", "o", "l", "u", "m", "e", ":", " ">>
    \o Str(count)
    \o <<" ", "r", "e", "q", "u", "e", "s", "t", "s", " ", "i", "n", " ",
         "l", "a", "s", "t", " ", "h", "o", "u", "r">>

\* f'Multiple attempts to {path}: {count} times in last hour'
PathReason(path, count) ==
    <<"M", "u", "l", "t", "i", "p", "l", "e", " ", "a", "t", "t", "e", "m", "p", "t", "s",
      " ", "t", "o", " ">>
    \o path \o <<":", " ">> \o Str(count)
    \o <<" ", "t", "i", "m", "e", "s", " ", "i", "n", " ", "l", "a", "s", "t", " ",
         "h", "o", "u", "r">>

\* Count(...) over the rows of the log whose key is in keys
RECURSIVE CountRows(_, _)
CountRows(logs, keys) ==
    IF keys = {} THEN 0
    ELSE LET k == CHOOSE x \in keys : TRUE
         IN  logs[k] + CountRows(logs, keys \ {k})

\* RequestLog.objects.filter(timestamp__gte=one_hour_ago), grouped: the count of ip
VolumeCount(logs, ip, one_hour_ago) ==
    CountRows(logs, {k \in DOMAIN logs :
                        k.ip_address = ip /\ k.timestamp >= one_hour_ago})

PathCount_any_path(logs, ip, path, one_hour_ago) ==
    CountRows(logs, {k \in DOMAIN logs :
                        k.ip_address = ip /\ k.timestamp >= one_hour_ago})

\* ... filter(timestamp__gte=one_hour_ago, path__startswith=path), grouped
PathCount(logs, ip, path, one_hour_ago) ==
    CountRows(logs, {k \in DOMAIN logs :
                        /\ k.ip_address = ip
                        /\ k.timestamp >= one_hour_ago
                        /\ StartsWith(k.path, path)})

Flag(ip, reason, count, t) ==
    [ip_address |-> ip, reason |-> reason, flagged_at |-> t,
     request_count |-> count, is_resolved |-> FALSE]

\* SuspiciousIP.objects.filter(ip_address=ip, flagged_at__gte=one_hour_ago).exists()
RecentFlag(flags, ip, one_hour_ago) ==
    \E i \in 1..Len(flags) :
        flags[i].ip_address = ip /\ flags[i].flagged_at >= one_hour_ago

RecentPathFlag_never(flags, ip, path, one_hour_ago) == FALSE

\* ... filter(ip_address=ip, flagged_at__gte=one_hour_ago, reason__contains=path).exists()
RecentPathFlag(flags, ip, path, one_hour_ago) ==
    \E i \in 1..Len(flags) :
        /\ flags[i].ip_address = ip
        /\ flags[i].flagged_at >= one_hour_ago
        /\ Contains(flags[i].reason, path)

VolumeStep_at_threshold(logs, acc, ip, t) ==
    LET one_hour_ago == t - WindowHours
        count == VolumeCount(logs, ip, one_hour_ago)
    IN  IF count >= VolumeThreshold /\ ~RecentFlag(acc.flags, ip, one_hour_ago)
        THEN [flags |-> Append(acc.flags, Flag(ip, VolumeReason(count), count, t)),
              flagged_count |-> acc.flagged_count + 1]
        ELSE acc

\* Rule 1, one ip of the loop; acc is [flags, flagged_count]
VolumeStep(logs, acc, ip, t) ==
    LET one_hour_ago == t - WindowHours
        count == VolumeCount(logs, ip, one_hour_ago)
    IN  IF count > VolumeThreshold /\ ~RecentFlag(acc.flags, ip, one_hour_ago)
        THEN [flags |-> Append(acc.flags, Flag(ip, VolumeReason(count), count, t)),
              flagged_count |-> acc.flagged_count + 1]
        ELSE acc

\* Rule 2, one ip of the loop of one path
PathStep(logs, acc, path, ip, t) ==
    LET one_hour_ago == t - WindowHours
        count == PathCount(logs, ip, path, one_hour_ago)
    IN  IF count > PathThreshold /\ ~RecentPathFlag(acc.flags, ip, path, one_hour_ago)
        THEN [flags |-> Append(acc.flags, Flag(ip, PathReason(path, count), count, t)),
              flagged_count |-> acc.flagged_count + 1]
        ELSE acc

\* for item in high_volume_ips, from the i-th ip on
RECURSIVE RuleVolume(_, _, _, _)
RuleVolume(logs, acc, i, t) ==
    IF i > Len(IpOrder) THEN acc
    ELSE RuleVolume(logs, VolumeStep(logs, acc, IpOrder[i], t), i + 1, t)

\* for item in suspicious_ips, from the i-th ip on
RECURSIVE PathLoop(_, _, _, _, _)
PathLoop(logs, acc, path, i, t) ==
    IF i > Len(IpOrder) THEN acc
    ELSE PathLoop(logs, PathStep(logs, acc, path, IpOrder[i], t), path, i + 1, t)

\* for path in sensitive_paths, from the j-th path on
RECURSIVE RulePaths(_, _, _, _)
RulePaths(logs, acc, j, t) ==
    IF j > Len(sensitive_paths) THEN acc
    ELSE RulePaths(logs, PathLoop(logs, acc, sensitive_paths[j], 1, t), j + 1, t)

\* detect_anomalies() at time t: [flags, flagged_count]
detect_anomalies(logs, flags, t) ==
    RulePaths(logs, RuleVolume(logs, [flags |-> flags, flagged_count |-> 0], 1, t), 1, t)

\* for path in sensitive_paths, from the j-th path up to the one before failing
RECURSIVE RulePathsBefore(_, _, _, _, _)
RulePathsBefore(logs, acc, j, failing, t) ==
    IF j >= failing THEN acc
    ELSE RulePathsBefore(logs, PathLoop(logs, acc, sensitive_paths[j], 1, t),
                         j + 1, failing, t)

\* the reads of the log by one scan: high_volume_ips, then suspicious_ips for
\* each of the sensitive paths
LogReads == 1..(1 + Len(sensitive_paths))

\* detect_anomalies() at time t when its k-th read of the log raises: the
\* exception leaves the function, the flags created before it stay
detect_anomalies_raising(logs, flags, t, k) ==
    LET start == [flags |-> flags, flagged_count |-> 0]
    IN  IF k = 1 THEN start
        ELSE RulePathsBefore(logs, RuleVolume(logs, start, 1, t), 1, k - 1, t)

----------------------------------------------------------------------------
(* tasks.cleanup_old_logs *)

\* timedelta(days=30), in hours
RetentionHours == 720

\* cleanup_old_logs() at time t: [logs, deleted_count]
cleanup_old_logs(logs, t) ==
    LET old == {k \in DOMAIN logs : k.timestamp < t - RetentionHours}
    IN  [logs |-> [k \in DOMAIN logs \ old |-> logs[k]],
         deleted_count |-> CountRows(logs, old)]

----------------------------------------------------------------------------
(* tasks.auto_block_suspicious_ips *)

\* flag_count__gte=3
FlagThreshold == 3

\* duration_hours=24
AutoBlockHours == 24

AutoReason == "Automatically blocked: Multiple suspicious activity flags"

AutoIssuer == "System"

FlagCount_with_resolved(flags, ip) ==
    Cardinality({i \in 1..Len(flags) : flags[i].ip_address = ip})

\* filter(is_resolved=False), grouped: the flag_count of ip
FlagCount(flags, ip) ==
    Cardinality({i \in 1..Len(flags) :
                    flags[i].ip_address = ip /\ ~flags[i].is_resolved})

Resolve_delete(flags, ip) ==
    LET Kept(f) == ~(f.ip_address = ip /\ ~f.is_resolved)
    IN  SelectSeq(flags, Kept)

\* filter(ip_address=ip, is_resolved=False).update(is_resolved=True)
Resolve(flags, ip) ==
    [i \in 1..Len(flags) |->
        IF flags[i].ip_address = ip /\ ~flags[i].is_resolved
        THEN [flags[i] EXCEPT !.is_resolved = TRUE]
        ELSE flags[i]]

AutoBlockStep_unchecked(acc, ip, t) ==
    [table |-> block_ip(acc.table, ip, AutoReason, AutoIssuer, AutoBlockHours, t).table,
     flags |-> Resolve(acc.flags, ip),
     blocked_count |-> acc.blocked_count + 1]

AutoBlockStep_resolve_if_blocked(acc, ip, t) ==
    LET checked == is_blocked(acc.table, ip, t)
    IN  IF ~checked.ret
        THEN [table |-> block_ip(checked.table, ip, AutoReason, AutoIssuer,
                                 AutoBlockHours, t).table,
              flags |-> acc.flags,
              blocked_count |-> acc.blocked_count + 1]
        ELSE [acc EXCEPT !.table = checked.table, !.flags = Resolve(acc.flags, ip)]

\* one ip of the loop; acc is [table, flags, blocked_count]
AutoBlockStep(acc, ip, t) ==
    LET checked == is_blocked(acc.table, ip, t)
    IN  IF ~checked.ret
        THEN [table |-> block_ip(checked.table, ip, AutoReason, AutoIssuer,
                                 AutoBlockHours, t).table,
              flags |-> Resolve(acc.flags, ip),
              blocked_count |-> acc.blocked_count + 1]
        ELSE [acc EXCEPT !.table = checked.table]

\* for item in suspicious_ips, from the i-th ip on; selected is the query's result
RECURSIVE AutoBlockLoop(_, _, _, _)
AutoBlockLoop(acc, selected, i, t) ==
    IF i > Len(IpOrder) THEN acc
    ELSE AutoBlockLoop(IF IpOrder[i] \in selected
                       THEN AutoBlockStep(acc, IpOrder[i], t) ELSE acc,
                       selected, i + 1, t)

\* auto_block_suspicious_ips() at time t: [table, flags, blocked_count]
auto_block_suspicious_ips(table, flags, t) ==
    AutoBlockLoop([table |-> table, flags |-> flags, blocked_count |-> 0],
                  {ip \in IPs : FlagCount(flags, ip) >= FlagThreshold}, 1, t)

----------------------------------------------------------------------------
(* Actions *)

\* no call is running concurrently
NoCalls == [race |-> FALSE]

Init ==
    /\ now = 0
    /\ BlockedIP = {}
    /\ RequestLog = <<>>
    /\ SuspiciousIP = <<>>
    /\ BlockedAttempt = <<>>
    /\ calls = NoCalls
    /\ last = [op |-> "init"]

IsBlocked(ip) ==
    LET res == is_blocked(BlockedIP, ip, now)
    IN  /\ BlockedIP' = res.table
        /\ last' = [op |-> "is_blocked", ip |-> ip,
                    found |-> GetBlocked(BlockedIP, ip), ret |-> res.ret,
                    attempts |-> Len(BlockedAttempt)]
        /\ BlockedAttempt' =
              BlockedAttempt_cascade(BlockedAttempt, Deleted(BlockedIP, res.table))
        /\ UNCHANGED <<now, RequestLog, SuspiciousIP, calls>>

BlockIp(ip, reason, blocked_by, duration_hours) ==
    LET res == block_ip(BlockedIP, ip, reason, blocked_by, duration_hours, now)
    IN  /\ BlockedIP' = res.table
        /\ last' = [op |-> "block_ip", ip |-> ip, reason |-> reason,
                    blocked_by |-> blocked_by, duration_hours |-> duration_hours,
                    found |-> GetBlocked(BlockedIP, ip),
                    created |-> res.created, ret |-> res.ret]
        /\ UNCHANGED <<now, RequestLog, SuspiciousIP, BlockedAttempt, calls>>

UnblockIp(ip) ==
    LET res == unblock_ip(BlockedIP, ip)
    IN  /\ BlockedIP' = res.table
        /\ last' = [op |-> "unblock_ip", ip |-> ip,
                    found |-> GetBlocked(BlockedIP, ip), ret |-> res.ret,
                    attempts |-> Len(BlockedAttempt)]
        /\ BlockedAttempt' =
              BlockedAttempt_cascade(BlockedAttempt, Deleted(BlockedIP, res.table))
        /\ UNCHANGED <<now, RequestLog, SuspiciousIP, calls>>

\* the admin's selection: some of the rows listed
Selections == {q \in SUBSET BlockedIP : q # {}}

MakePermanent(queryset) ==
    LET res == make_permanent(BlockedIP, queryset)
    IN  /\ BlockedIP' = res.table
        /\ last' = [op |-> "make_permanent", ret |-> res.ret]
        /\ UNCHANGED <<now, RequestLog, SuspiciousIP, BlockedAttempt, calls>>

Extend24h(queryset) ==
    LET res == extend_24h(BlockedIP, queryset, now)
    IN  /\ \A r \in res.table : r.expires_at <= MaxExpiry
        /\ BlockedIP' = res.table
        /\ last' = [op |-> "extend_24h", ret |-> res.ret]
        /\ UNCHANGED <<now, RequestLog, SuspiciousIP, BlockedAttempt, calls>>

RemoveBlocks(queryset) ==
    LET res == remove_blocks(BlockedIP, queryset)
    IN  /\ BlockedIP' = res.table
        /\ last' = [op |-> "remove_blocks", ret |-> res.ret,
                    attempts |-> Len(BlockedAttempt)]
        /\ BlockedAttempt' =
              BlockedAttempt_cascade(BlockedAttempt, Deleted(BlockedIP, res.table))
        /\ UNCHANGED <<now, RequestLog, SuspiciousIP, calls>>

\* n requests of ip to path are logged within the current hour: one batch for
\* each ip, path and hour, and at most MaxBatches batches in the log
LogRequests(ip, path, n) ==
    LET key == [ip_address |-> ip, path |-> path, timestamp |-> now]
    IN  /\ key \notin DOMAIN RequestLog
        /\ Cardinality(DOMAIN RequestLog) < MaxBatches
        /\ RequestLog' = [k \in DOMAIN RequestLog \cup {key} |->
                             IF k = key THEN n ELSE RequestLog[k]]
        /\ last' = [op |-> "log"]
        /\ UNCHANGED <<now, BlockedIP, SuspiciousIP, BlockedAttempt, calls>>

\* an ip that is not in the log yet sends all the requests of burst (path ->
\* number of requests) within the current hour
LogBurst(ip, burst) ==
    /\ \A k \in DOMAIN RequestLog : k.ip_address # ip
    /\ RequestLog' =
          [k \in DOMAIN RequestLog
                  \cup {[ip_address |-> ip, path |-> path, timestamp |-> now] :
                           path \in DOMAIN burst} |->
              IF k \in DOMAIN RequestLog THEN RequestLog[k] ELSE burst[k.path]]
    /\ last' = [op |-> "log"]
    /\ UNCHANGED <<now, BlockedIP, SuspiciousIP, BlockedAttempt, calls>>

DetectAnomalies ==
    LET res == detect_anomalies(RequestLog, SuspiciousIP, now)
    IN  /\ SuspiciousIP' = res.flags
        /\ last' = [op |-> "detect_anomalies", ret |-> res.flagged_count]
        /\ UNCHANGED <<now, BlockedIP, RequestLog, BlockedAttempt, calls>>

\* the k-th read of the log fails
DetectAnomaliesRaises(k) ==
    LET res == detect_anomalies_raising(RequestLog, SuspiciousIP, now, k)
    IN  /\ SuspiciousIP' = res.flags
        /\ last' = [op |-> "detect_anomalies raises", read |-> k,
                    created |-> res.flagged_count]
        /\ UNCHANGED <<now, BlockedIP, RequestLog, BlockedAttempt, calls>>

CleanupOldLogs ==
    LET res == cleanup_old_logs(RequestLog, now)
    IN  /\ RequestLog' = res.logs
        /\ last' = [op |-> "cleanup_old_logs", ret |-> res.deleted_count]
        /\ UNCHANGED <<now, BlockedIP, SuspiciousIP, BlockedAttempt, calls>>

AutoBlock ==
    LET res == auto_block_suspicious_ips(BlockedIP, SuspiciousIP, now)
    IN  /\ BlockedIP' = res.table
        /\ SuspiciousIP' = res.flags
        /\ last' = [op |-> "auto_block_suspicious_ips", ret |-> res.blocked_count,
                    again |-> last.op = "auto_block_suspicious_ips"]
        \* the rows that is_blocked reaps in the loop take their attempts along
        /\ BlockedAttempt' =
              BlockedAttempt_cascade(BlockedAttempt,
                  {ip \in IPs : /\ FlagCount(SuspiciousIP, ip) >= FlagThreshold
                                /\ is_blocked(BlockedIP, ip, now).table # BlockedIP})
        /\ UNCHANGED <<now, RequestLog, calls>>

\* the clock moves on to a later hour
AdvanceTime(t) ==
    /\ t > now
    /\ now' = t
    /\ last' = [op |-> "tick"]
    /\ UNCHANGED <<BlockedIP, RequestLog, SuspiciousIP, BlockedAttempt, calls>>

----------------------------------------------------------------------------
(* The Block Gate.  Its code is not among the source files: it is modelled
   from the specification's section 4.2, on is_blocked and BlockedAttempt. *)

\* the paths requested at the gate
GatePaths == {path_admin_x, path_home}

\* check_and_record_attempt(ip, path) at time t: is_blocked; when blocked, an
\* attempt is recorded against the entry before denial is signalled
check_and_record_attempt(table, attempts, ip, path, t) ==
    LET checked == is_blocked(table, ip, t)
        left == BlockedAttempt_cascade(attempts, Deleted(table, checked.table))
    IN  IF checked.ret
        THEN [ret |-> "Deny", table |-> checked.table,
              attempts |-> Append(left, [blocked_ip |-> ip, path |-> path,
                                         timestamp |-> t])]
        ELSE [ret |-> "Permit", table |-> checked.table, attempts |-> left]

CheckAndRecordAttempt(ip, path) ==
    LET res == check_and_record_attempt(BlockedIP, BlockedAttempt, ip, path, now)
    IN  /\ Len(BlockedAttempt) < MaxAttempts
        /\ BlockedIP' = res.table
        /\ BlockedAttempt' = res.attempts
        /\ last' = [op |-> "check_and_record_attempt", ip |-> ip, path |-> path,
                    ret |-> res.ret]
        /\ UNCHANGED <<now, RequestLog, SuspiciousIP, calls>>

----------------------------------------------------------------------------
(* views: block_ip_api, ip_statistics, list_blocked_ips *)

\* request.data.get('ip_address') when the key is missing or empty
Missing == ""

\* a text that is no IPv4 or IPv6 address
Malformed == "not-an-ip"

\* what a caller may send as ip_address
ApiIps == {Missing, "1.2.3.4", Malformed}

\* request.user: "" is the anonymous user
ApiUsers == {"", "admin"}

\* request.user.username if request.user.is_authenticated else 'API'
ApiIssuer(user) == IF user # "" THEN user ELSE "API"

\* block_ip_api: the response and the table afterwards.  Nothing in the view
\* or in block_ip validates the text; stores says whether the database column
\* takes it as it is (a text column) or the query raises (an inet column).
block_ip_api(table, ip_address, reason, user, duration_hours, stores, t) ==
    IF ip_address = Missing
    THEN [status |-> 400, table |-> table]
    ELSE IF ip_address = Malformed /\ ~stores
         THEN [status |-> 400, table |-> table]
         ELSE [status |-> 201,
               table |-> block_ip(table, ip_address, reason, ApiIssuer(user),
                                  duration_hours, t).table]

\* ip_statistics: the counts of the response
ip_statistics(logs, table, flags) ==
    [total_requests |-> CountRows(logs, DOMAIN logs),
     blocked_ips |-> Cardinality(table),
     suspicious_ips |-> Cardinality({i \in 1..Len(flags) : ~flags[i].is_resolved})]

\* list_blocked_ips: the rows listed, each with is_active, and their count
list_blocked_ips(table, t) ==
    [blocked_ips |-> {[ip_address |-> r.ip_address, reason |-> r.reason,
                       expires_at |-> r.expires_at, is_active |-> ~is_expired(r, t)] :
                         r \in table},
     count |-> Cardinality(table)]

BlockIpApi(ip_address, reason, user, duration_hours, stores) ==
    LET res == block_ip_api(BlockedIP, ip_address, reason, user, duration_hours,
                            stores, now)
    IN  /\ BlockedIP' = res.table
        /\ last' = [op |-> "block_ip_api", ip_address |-> ip_address,
                    status |-> res.status]
        /\ UNCHANGED <<now, RequestLog, SuspiciousIP, BlockedAttempt, calls>>

IpStatistics ==
    /\ last' = [op |-> "ip_statistics",
                ret |-> ip_statistics(RequestLog, BlockedIP, SuspiciousIP)]
    /\ UNCHANGED <<now, BlockedIP, RequestLog, SuspiciousIP, BlockedAttempt, calls>>

ListBlockedIps ==
    /\ last' = [op |-> "list_blocked_ips", ret |-> list_blocked_ips(BlockedIP, now)]
    /\ UNCHANGED <<now, BlockedIP, RequestLog, SuspiciousIP, BlockedAttempt, calls>>

----------------------------------------------------------------------------
(* Two calls on the same ip that run concurrently, query by query.  No call
   of models.py takes a lock or opens a transaction: every query is a step of
   its own.  pk is the primary key of the row of calls.ip (0: no row). *)

Procs == {1, 2}

\* the ip the concurrent calls are about
RaceIPs == {"1.2.3.4"}

\* the calls that may race: block_ip with its arguments, is_blocked, unblock_ip
RacingCalls ==
    [op : {"block_ip"}, reason : Reasons, blocked_by : Issuers, duration_hours : Durations]
    \cup [op : {"is_blocked", "unblock_ip"}, reason : {""}, blocked_by : {""},
          duration_hours : {NoDuration}]

\* a call before its first query: obj is the instance it has fetched, if any
Begun(c) ==
    [op |-> c.op, reason |-> c.reason, blocked_by |-> c.blocked_by,
     duration_hours |-> c.duration_hours, pc |-> "get", obj |-> <<>>, ret |-> ""]

Finished(c) == c.pc \in {"done", "raised"}

\* two calls on ip begin; base is the table they start from
StartRace(ip, a, b) ==
    /\ ~calls.race
    /\ calls' = [race |-> TRUE, ip |-> ip, base |-> BlockedIP,
                 pk |-> IF GetBlocked(BlockedIP, ip) = {} THEN 0 ELSE 1, next |-> 2,
                 procs |-> [p \in Procs |-> IF p = 1 THEN Begun(a) ELSE Begun(b)]]
    /\ last' = [op |-> "race"]
    /\ UNCHANGED <<now, BlockedIP, RequestLog, SuspiciousIP, BlockedAttempt>>

\* cls.objects.get(ip_address=ip_address), also the first query of get_or_create
RaceGet(p) ==
    /\ calls.race
    /\ calls.procs[p].pc = "get"
    /\ LET c == calls.procs[p]
           found == GetBlocked(BlockedIP, calls.ip)
           blocked == [row |-> CHOOSE r \in found : TRUE, pk |-> calls.pk]
       IN  calls' = [calls EXCEPT !.procs[p] =
              IF found = {}
              THEN IF c.op = "block_ip" THEN [c EXCEPT !.pc = "create"]
                   ELSE [c EXCEPT !.pc = "done", !.ret = FALSE]
              ELSE IF c.op = "block_ip" THEN [c EXCEPT !.pc = "save", !.obj = blocked]
                   ELSE IF c.op = "unblock_ip" \/ is_expired(blocked.row, now)
                        THEN [c EXCEPT !.pc = "delete", !.obj = blocked]
                        ELSE [c EXCEPT !.pc = "done", !.obj = blocked, !.ret = TRUE]]
    /\ last' = [op |-> "race"]
    /\ UNCHANGED <<now, BlockedIP, RequestLog, SuspiciousIP, BlockedAttempt>>

\* get_or_create found no row: create(**params); the unique ip_address makes
\* the insert fail when a row has appeared, and get_or_create then gets again
RaceCreate(p) ==
    /\ calls.race
    /\ calls.procs[p].pc = "create"
    /\ LET c == calls.procs[p]
           found == GetBlocked(BlockedIP, calls.ip)
           row == [ip_address |-> calls.ip, reason |-> c.reason, blocked_by |-> c.blocked_by,
                   expires_at |-> IF c.duration_hours # NoDuration
                                  THEN now + c.duration_hours ELSE None]
       IN  IF found = {}
           THEN /\ BlockedIP' = BlockedIP \cup {row}
                /\ calls' = [calls EXCEPT !.pk = calls.next, !.next = calls.next + 1,
                                          !.procs[p] = [c EXCEPT !.pc = "done", !.ret = row]]
           ELSE /\ BlockedIP' = BlockedIP
                /\ calls' = [calls EXCEPT !.procs[p] = [c EXCEPT !.pc = "reget"]]
    /\ last' = [op |-> "race"]
    /\ UNCHANGED <<now, RequestLog, SuspiciousIP, BlockedAttempt>>

\* get_or_create after IntegrityError: get again, or raise when the row is gone
RaceReget(p) ==
    /\ calls.race
    /\ calls.procs[p].pc = "reget"
    /\ LET c == calls.procs[p]
           found == GetBlocked(BlockedIP, calls.ip)
       IN  calls' = [calls EXCEPT !.procs[p] =
              IF found = {} THEN [c EXCEPT !.pc = "raised"]
              ELSE [c EXCEPT !.pc = "save",
                             !.obj = [row |-> CHOOSE r \in found : TRUE, pk |-> calls.pk]]]
    /\ last' = [op |-> "race"]
    /\ UNCHANGED <<now, BlockedIP, RequestLog, SuspiciousIP, BlockedAttempt>>

\* if not created: the fields are merged into the instance fetched, then
\* blocked.save(): UPDATE of the row of that pk, INSERT when no row has it
RaceSave(p) ==
    /\ calls.race
    /\ calls.procs[p].pc = "save"
    /\ LET c == calls.procs[p]
           found == GetBlocked(BlockedIP, calls.ip)
           row == [c.obj.row EXCEPT
                      !.reason = OrElse(c.reason, @),
                      !.blocked_by = OrElse(c.blocked_by, @),
                      !.expires_at = IF c.duration_hours # NoDuration
                                     THEN now + c.duration_hours ELSE None]
       IN  IF found # {} /\ calls.pk # c.obj.pk
           THEN \* the INSERT violates unique=True
                /\ BlockedIP' = BlockedIP
                /\ calls' = [calls EXCEPT !.procs[p] = [c EXCEPT !.pc = "raised"]]
           ELSE /\ BlockedIP' = (BlockedIP \ found) \cup {row}
                /\ calls' = [calls EXCEPT !.pk = c.obj.pk,
                                          !.procs[p] = [c EXCEPT !.pc = "done", !.ret = row]]
    /\ last' = [op |-> "race"]
    /\ UNCHANGED <<now, RequestLog, SuspiciousIP, BlockedAttempt>>

\* blocked.delete(): DELETE of the row of the pk fetched, whatever it holds now
RaceDelete(p) ==
    /\ calls.race
    /\ calls.procs[p].pc = "delete"
    /\ LET c == calls.procs[p]
           found == GetBlocked(BlockedIP, calls.ip)
           gone == found = {} \/ calls.pk # c.obj.pk
       IN  /\ BlockedIP' = IF gone THEN BlockedIP ELSE BlockedIP \ found
           /\ BlockedAttempt' =
                 IF gone THEN BlockedAttempt
                 ELSE BlockedAttempt_cascade(BlockedAttempt, {calls.ip})
           /\ calls' = [calls EXCEPT !.pk = IF gone THEN @ ELSE 0,
                                     !.procs[p] = [c EXCEPT !.pc = "done",
                                                            !.ret = (c.op = "unblock_ip")]]
    /\ last' = [op |-> "race"]
    /\ UNCHANGED <<now, RequestLog, SuspiciousIP>>

\* both calls have returned or raised
FinishRace ==
    /\ calls.race
    /\ \A p \in Procs : Finished(calls.procs[p])
    /\ calls' = NoCalls
    /\ last' = [op |-> "race"]
    /\ UNCHANGED <<now, BlockedIP, RequestLog, SuspiciousIP, BlockedAttempt>>

----------------------------------------------------------------------------
(* Specifications *)

\* the block registry and the admin's bulk actions
NextRegistry ==
    \/ \E ip \in IPs : IsBlocked(ip)
    \/ \E ip \in IPs, reason \in Reasons, blocked_by \in Issuers, d \in Durations :
          BlockIp(ip, reason, blocked_by, d)
    \/ \E ip \in IPs : UnblockIp(ip)
    \/ \E q \in Selections : MakePermanent(q)
    \/ \E q \in Selections : Extend24h(q)
    \/ \E q \in Selections : RemoveBlocks(q)
    \/ \E t \in Instants : AdvanceTime(t)

SpecRegistry == Init /\ [][NextRegistry]_vars

\* the request log and the anomaly scanner
NextScanner ==
    \/ \E ip \in IPs, path \in Paths, n \in BatchSizes : LogRequests(ip, path, n)
    \/ DetectAnomalies
    \/ \E t \in Instants : AdvanceTime(t)

SpecScanner == Init /\ [][NextScanner]_vars

\* the first hour at which a row logged at hour 0 is older than 30 days
PruneInstant == RetentionHours + 1

\* the gate, next to the calls that create and delete entries; the clock is
\* read at 0 and at MaxNow
NextGate ==
    \/ \E ip \in IPs, path \in GatePaths : CheckAndRecordAttempt(ip, path)
    \/ \E ip \in IPs : IsBlocked(ip)
    \/ \E ip \in IPs, d \in Durations : BlockIp(ip, "abuse", "admin", d)
    \/ \E ip \in IPs : UnblockIp(ip)
    \/ \E q \in Selections : RemoveBlocks(q)
    \/ AdvanceTime(MaxNow)

SpecGate == Init /\ [][NextGate]_vars

\* the views, next to the registry calls that remove entries
NextApi ==
    \/ \E ip_address \in ApiIps, reason \in Reasons, user \in ApiUsers,
          d \in Durations, stores \in BOOLEAN :
          BlockIpApi(ip_address, reason, user, d, stores)
    \/ IpStatistics
    \/ ListBlockedIps
    \/ \E ip \in IPs : IsBlocked(ip)
    \/ \E ip \in IPs : UnblockIp(ip)
    \/ \E t \in Instants : AdvanceTime(t)

SpecApi == Init /\ [][NextApi]_vars

\* a scan may fail at any of its reads of the log
NextScanFails ==
    \/ \E ip \in IPs, burst \in Bursts : LogBurst(ip, burst)
    \/ DetectAnomalies
    \/ \E k \in LogReads : DetectAnomaliesRaises(k)
    \/ \E t \in Instants : AdvanceTime(t)

SpecScanFails == Init /\ [][NextScanFails]_vars

\* the periodic tasks next to the registry calls; manual blocks are permanent,
\* the clock is read at 0 and after 30 days
NextJobs ==
    \/ \E ip \in IPs : IsBlocked(ip)
    \/ \E ip \in IPs : BlockIp(ip, "abuse", "admin", NoDuration)
    \/ \E ip \in IPs : UnblockIp(ip)
    \/ \E ip \in IPs, burst \in Bursts : LogBurst(ip, burst)
    \/ DetectAnomalies
    \/ CleanupOldLogs
    \/ AutoBlock
    \/ AdvanceTime(PruneInstant)

SpecJobs == Init /\ [][NextJobs]_vars

\* pairs of concurrent calls on one ip, one pair after the other; the clock
\* moves between the pairs
NextRace ==
    \/ \E ip \in RaceIPs, a \in RacingCalls, b \in RacingCalls : StartRace(ip, a, b)
    \/ \E p \in Procs : RaceGet(p)
    \/ \E p \in Procs : RaceCreate(p)
    \/ \E p \in Procs : RaceReget(p)
    \/ \E p \in Procs : RaceSave(p)
    \/ \E p \in Procs : RaceDelete(p)
    \/ FinishRace
    \/ \E t \in Instants : ~calls.race /\ AdvanceTime(t)

SpecRace == Init /\ [][NextRace]_vars

\* everything: manual blocks by one admin, the traffic of an ip in one burst,
\* the clock read at 0 and at MaxNow
Next ==
    \/ \E ip \in IPs : IsBlocked(ip)
    \/ \E ip \in IPs, d \in Durations : BlockIp(ip, "abuse", "admin", d)
    \/ \E ip \in IPs : UnblockIp(ip)
    \/ \E q \in Selections : MakePermanent(q)
    \/ \E q \in Selections : Extend24h(q)
    \/ \E q \in Selections : RemoveBlocks(q)
    \/ \E ip \in IPs, burst \in Bursts : LogBurst(ip, burst)
    \/ DetectAnomalies
    \/ AutoBlock
    \/ AdvanceTime(MaxNow)

Spec == Init /\ [][Next]_vars

----------------------------------------------------------------------------
(* The block registry: is_blocked, block_ip, unblock_ip *)

\* the rows of ip
RowsOf(table, ip) == {r \in table : r.ip_address = ip}

\* the rows that are in force at time t
InForce(rows, t) == {r \in rows : r.expires_at = None \/ ~(t > r.expires_at)}

\* the expiry that block_ip computes from duration_hours at time t
ExpiryFor(duration_hours, t) == IF duration_hours > 0 THEN t + duration_hours ELSE None

\* C1: is_blocked(ip) returns true iff ip has an entry that is not expired
\* (now > expires_at; no expires_at: never); an expired entry is deleted, a
\* non-expired entry and the entries of the other ips are left as they are.
C1_IsBlockedReaps ==
    [][last'.op = "is_blocked" =>
          LET ip == last'.ip
              active == InForce(RowsOf(BlockedIP, ip), now)
          IN  /\ last'.ret = (active # {})
              /\ RowsOf(BlockedIP', ip) = active
              /\ \A other \in IPs \ {ip} : RowsOf(BlockedIP', other) = RowsOf(BlockedIP, other)
              /\ BlockedIP' \subseteq BlockedIP]_vars

\* an expired entry was found and reaped while the other ip keeps its entry
C1_Witness ==
    /\ last.op = "is_blocked"
    /\ last.ret = FALSE
    /\ \E r \in last.found : r.expires_at # None /\ now > r.expires_at
    /\ RowsOf(BlockedIP, last.ip) = {}
    /\ BlockedIP # {}

\* C2: block() replaces the expiry of an existing entry unconditionally: now +
\* duration for a positive duration, none (permanent) without a duration.
C2_BlockReplacesExpiry ==
    [][last'.op = "block_ip" =>
          /\ RowsOf(BlockedIP', last'.ip) # {}
          /\ \A r \in RowsOf(BlockedIP', last'.ip) :
                r.expires_at = ExpiryFor(last'.duration_hours, now)]_vars

\* a permanent entry was blocked again for one hour
C2_Witness ==
    /\ last.op = "block_ip"
    /\ last.duration_hours = 1
    /\ \E r \in last.found : r.expires_at = None
    /\ \E r \in RowsOf(BlockedIP, last.ip) : r.expires_at = now + 1

\* C3: block() of an ip that has an entry replaces reason and issuer each only
\* by a non-empty new value; with no entry it creates one with exactly the
\* given reason, issuer and expiry.
C3_BlockMergesReasonIssuer ==
    [][last'.op = "block_ip" =>
          LET ip == last'.ip
              old == RowsOf(BlockedIP, ip)
          IN  /\ old = {} =>
                    RowsOf(BlockedIP', ip) =
                        {[ip_address |-> ip, reason |-> last'.reason,
                          blocked_by |-> last'.blocked_by,
                          expires_at |-> ExpiryFor(last'.duration_hours, now)]}
              /\ \A o \in old :
                    /\ Cardinality(RowsOf(BlockedIP', ip)) = 1
                    /\ \A r \in RowsOf(BlockedIP', ip) :
                          /\ r.reason = IF last'.reason = "" THEN o.reason ELSE last'.reason
                          /\ r.blocked_by =
                                IF last'.blocked_by = "" THEN o.blocked_by ELSE last'.blocked_by
              /\ \A other \in IPs \ {ip} : RowsOf(BlockedIP', other) = RowsOf(BlockedIP, other)]_vars

\* an entry was blocked again with an empty reason and a new issuer
C3_Witness ==
    /\ last.op = "block_ip"
    /\ last.reason = ""
    /\ last.blocked_by = "admin"
    /\ \E o \in last.found : o.reason = "abuse" /\ o.blocked_by = ""
    /\ \E r \in RowsOf(BlockedIP, last.ip) : r.reason = "abuse" /\ r.blocked_by = "admin"

\* C4: unblock(ip) deletes the entry and returns true when there is one,
\* expired or not; with none it returns false and changes nothing; afterwards
\* is_blocked(ip) is false and the other ips' entries are as before.
C4_Unblock ==
    [][last'.op = "unblock_ip" =>
          LET ip == last'.ip
          IN  /\ last'.ret = (RowsOf(BlockedIP, ip) # {})
              /\ BlockedIP' = BlockedIP \ RowsOf(BlockedIP, ip)
              /\ UNCHANGED <<now, RequestLog, SuspiciousIP>>
              /\ ~is_blocked(BlockedIP', ip, now').ret]_vars

\* an expired entry was unblocked while the other ip keeps its entry
C4_Witness ==
    /\ last.op = "unblock_ip"
    /\ last.ret = TRUE
    /\ \E r \in last.found : r.expires_at # None /\ now > r.expires_at
    /\ RowsOf(BlockedIP, last.ip) = {}
    /\ BlockedIP # {}

\* C5: in every reachable state there is at most one BlockEntry for each ip.
C5_OneEntryPerIp ==
    \A ip \in IPs : Cardinality(RowsOf(BlockedIP, ip)) <= 1

\* an ip that had an entry was blocked again while the other ip has one too
C5_Witness ==
    /\ last.op = "block_ip"
    /\ ~last.created
    /\ \A ip \in IPs : Cardinality(RowsOf(BlockedIP, ip)) = 1

----------------------------------------------------------------------------
(* The anomaly scanner: detect_anomalies *)

\* how many rows the log holds under the keys
RECURSIVE Total(_, _)
Total(logs, keys) ==
    IF keys = {} THEN 0
    ELSE LET k == CHOOSE x \in keys : TRUE IN Total(logs, keys \ {k}) + logs[k]

\* the keys of the rows of ip that are at most one hour old
Recent(ip) == {k \in DOMAIN RequestLog : k.ip_address = ip /\ now - k.timestamp <= 1}

\* those whose path starts with prefix
RecentTo(ip, prefix) ==
    {k \in Recent(ip) : /\ Len(k.path) >= Len(prefix)
                        /\ \A i \in 1..Len(prefix) : k.path[i] = prefix[i]}

\* the flags of ip raised at most one hour ago
RecentFlags(ip) ==
    {i \in 1..Len(SuspiciousIP) :
        SuspiciousIP[i].ip_address = ip /\ now - SuspiciousIP[i].flagged_at <= 1}

HighRequestVolume ==
    <<"H", "i", "g", "h", " ", "r", "e", "q", "u", "e", "s", "t", " ",
      "v", "o", "l", "u", "m", "e">>

RequestsInLastHour ==
    <<" ", "r", "e", "q", "u", "e", "s", "t", "s", " ", "i", "n", " ",
      "l", "a", "s", "t", " ", "h", "o", "u", "r">>

IsVolumeFlag(flag) == StartsWith(flag.reason, HighRequestVolume)

Prefixes ==
    { <<"/", "a", "d", "m", "i", "n">>,
      <<"/", "l", "o", "g", "i", "n">>,
      <<"/", "a", "p", "i", "/", "a", "u", "t", "h">> }

\* the scan only appends flags
ScanAppends == SubSeq(SuspiciousIP', 1, Len(SuspiciousIP)) = SuspiciousIP

\* the flags the scan created
Created == (Len(SuspiciousIP) + 1)..Len(SuspiciousIP')

\* C6: Rule A: a scan at T creates for every ip with n > 100 rows of timestamp
\* >= T-1h and no flag of flagged_at >= T-1h exactly one flag, of request_count
\* n and reason "High request volume: n requests in last hour", and no volume
\* flag for an ip with n <= 100.
C6_RuleVolume ==
    [][last'.op = "detect_anomalies" =>
          /\ ScanAppends
          /\ \A ip \in IPs :
                LET n == Total(RequestLog, Recent(ip))
                    volume == {i \in Created : /\ SuspiciousIP'[i].ip_address = ip
                                               /\ IsVolumeFlag(SuspiciousIP'[i])}
                IN  /\ (n > 100 /\ RecentFlags(ip) = {}) =>
                          \E i \in volume :
                              /\ volume = {i}
                              /\ SuspiciousIP'[i].request_count = n
                              /\ SuspiciousIP'[i].reason =
                                    HighRequestVolume \o <<":", " ">> \o Str(n)
                                        \o RequestsInLastHour
                              /\ n = 101 =>
                                    SubSeq(SuspiciousIP'[i].reason, 20, 24) =
                                        <<":", " ", "1", "0", "1">>
                    /\ n <= 100 => volume = {}]_vars

\* a scan has just flagged an ip for 101 requests, 100 of them one hour old
C6_Witness ==
    /\ last.op = "detect_anomalies"
    /\ \E i \in 1..Len(SuspiciousIP) :
          /\ IsVolumeFlag(SuspiciousIP[i])
          /\ SuspiciousIP[i].flagged_at = now
          /\ SuspiciousIP[i].request_count = 101
          /\ \E k \in DOMAIN RequestLog :
                /\ k.ip_address = SuspiciousIP[i].ip_address
                /\ k.timestamp = now - 1

\* C7: Rule B: a scan at T creates for every sensitive prefix and every ip with
\* c > 10 rows of timestamp >= T-1h and a path starting with the prefix, and no
\* flag of flagged_at >= T-1h whose reason contains the prefix, exactly one flag
\* whose reason contains the prefix, of request_count c; none when c <= 10.
C7_RulePaths ==
    [][last'.op = "detect_anomalies" =>
          /\ ScanAppends
          /\ \A ip \in IPs, prefix \in Prefixes :
                LET c == Total(RequestLog, RecentTo(ip, prefix))
                    flagged == {i \in Created : /\ SuspiciousIP'[i].ip_address = ip
                                                /\ Contains(SuspiciousIP'[i].reason, prefix)}
                IN  /\ (/\ c > 10
                        /\ \A i \in RecentFlags(ip) :
                              ~Contains(SuspiciousIP[i].reason, prefix)) =>
                          \E i \in flagged :
                              /\ flagged = {i}
                              /\ SuspiciousIP'[i].request_count = c
                    /\ c <= 10 => flagged = {}]_vars

\* a scan has just flagged an ip for 11 requests to /admin
C7_Witness ==
    /\ last.op = "detect_anomalies"
    /\ \E i \in 1..Len(SuspiciousIP) :
          /\ Contains(SuspiciousIP[i].reason, <<"/", "a", "d", "m", "i", "n">>)
          /\ SuspiciousIP[i].flagged_at = now
          /\ SuspiciousIP[i].request_count = 11

\* two flags of one ip raised by the same rule
SameRule(f, g) ==
    /\ f.ip_address = g.ip_address
    /\ \/ IsVolumeFlag(f) /\ IsVolumeFlag(g)
       \/ \E prefix \in Prefixes : Contains(f.reason, prefix) /\ Contains(g.reason, prefix)

\* C8: after any sequence of scans no ip has two volume flags, nor two flags
\* for the same prefix, raised within one hour of each other; a scan returns
\* the number of flags it created.
C8_ScanDedup ==
    /\ [](\A i, j \in 1..Len(SuspiciousIP) :
            (i < j /\ SameRule(SuspiciousIP[i], SuspiciousIP[j])) =>
                SuspiciousIP[j].flagged_at - SuspiciousIP[i].flagged_at > 1)
    /\ [][last'.op = "detect_anomalies" =>
            ScanAppends /\ last'.ret = Len(SuspiciousIP') - Len(SuspiciousIP)]_vars

\* a scan one hour after the flag created nothing for the ip, whose traffic is
\* still over both thresholds
C8_Witness ==
    /\ last.op = "detect_anomalies"
    /\ last.ret = 0
    /\ \E ip \in IPs :
          /\ Total(RequestLog, Recent(ip)) > 100
          /\ \E prefix \in Prefixes : Total(RequestLog, RecentTo(ip, prefix)) > 10
          /\ \E i \in RecentFlags(ip) :
                /\ IsVolumeFlag(SuspiciousIP[i])
                /\ SuspiciousIP[i].flagged_at = now - 1

\* C9: Rule A and Rule B evaluate independently: an ip with more than 100
\* requests in the last hour and no volume flag in the last hour receives a
\* volume flag whatever sensitive-path flags it has, and an ip over a prefix's
\* threshold with no recent flag for that prefix receives a flag for it
\* whatever other flags it has.
C9_RulesIndependent ==
    [][last'.op = "detect_anomalies" =>
          \A ip \in IPs :
              /\ (/\ Total(RequestLog, Recent(ip)) > 100
                  /\ \A i \in RecentFlags(ip) : ~IsVolumeFlag(SuspiciousIP[i])) =>
                    \E i \in Created : /\ SuspiciousIP'[i].ip_address = ip
                                       /\ IsVolumeFlag(SuspiciousIP'[i])
              /\ \A prefix \in Prefixes :
                    (/\ Total(RequestLog, RecentTo(ip, prefix)) > 10
                     /\ \A i \in RecentFlags(ip) :
                           ~Contains(SuspiciousIP[i].reason, prefix)) =>
                       \E i \in Created : /\ SuspiciousIP'[i].ip_address = ip
                                          /\ Contains(SuspiciousIP'[i].reason, prefix)]_vars

----------------------------------------------------------------------------
(* The auto-blocker: auto_block_suspicious_ips *)

\* the unresolved flags of ip
Unresolved(ip) ==
    {i \in 1..Len(SuspiciousIP) :
        SuspiciousIP[i].ip_address = ip /\ SuspiciousIP[i].is_resolved = FALSE}

\* ip has at least 3 unresolved flags and no entry in force
ToBlock(ip) ==
    /\ Cardinality(Unresolved(ip)) >= 3
    /\ InForce(RowsOf(BlockedIP, ip), now) = {}

C11_ResolvesSelected ==
    [][last'.op = "auto_block_suspicious_ips" =>
          /\ \A ip \in IPs :
                Cardinality(Unresolved(ip)) >= 3 =>
                    \A i \in Unresolved(ip) : SuspiciousIP'[i].is_resolved = TRUE
          /\ \A ip \in IPs :
                Cardinality({i \in 1..Len(SuspiciousIP') :
                                /\ SuspiciousIP'[i].ip_address = ip
                                /\ SuspiciousIP'[i].is_resolved = FALSE}) < 3]_vars

\* C12: run_auto_block() is idempotent: a second run right after a run, with
\* nothing in between, returns 0 and leaves the registry and every flag as the
\* first run left them.
C12_AutoBlockIdempotent ==
    [][(last.op = "auto_block_suspicious_ips" /\ last'.op = "auto_block_suspicious_ips") =>
          /\ last'.ret = 0
          /\ BlockedIP' = BlockedIP
          /\ SuspiciousIP' = SuspiciousIP]_vars

\* a second run right after the run that blocked an ip and resolved its three
\* flags has returned 0
C12_Witness ==
    /\ last.op = "auto_block_suspicious_ips"
    /\ last.again
    /\ last.ret = 0
    /\ \E ip \in IPs :
          /\ \E r \in RowsOf(BlockedIP, ip) :
                r.blocked_by = "System" /\ r.expires_at = now + 24
          /\ Cardinality({i \in 1..Len(SuspiciousIP) :
                             /\ SuspiciousIP[i].ip_address = ip
                             /\ SuspiciousIP[i].is_resolved}) = 3

----------------------------------------------------------------------------
(* Concurrent calls on one ip *)

\* the rows of the ip after call p and then call q, each run alone, from base
SerialRows(p, q) ==
    LET a == calls.procs[p]
        b == calls.procs[q]
        first == block_ip(calls.base, calls.ip, a.reason, a.blocked_by,
                          a.duration_hours, now).table
    IN  RowsOf(block_ip(first, calls.ip, b.reason, b.blocked_by,
                        b.duration_hours, now).table, calls.ip)

\* C13: two concurrent block() calls for the same ip are atomic: under every
\* interleaving of their queries the resulting entry is the one that one of the
\* two serial orders gives, and neither call fails.
C13_BlockSerializable ==
    (/\ calls.race
     /\ \A p \in Procs : Finished(calls.procs[p]) /\ calls.procs[p].op = "block_ip") =>
        /\ \A p \in Procs : calls.procs[p].pc = "done"
        /\ RowsOf(BlockedIP, calls.ip) \in {SerialRows(1, 2), SerialRows(2, 1)}

\* C14: is_blocked(ip)'s read and delete are atomic for the ip: whatever runs
\* concurrently, the delete removes only an entry that is expired at that
\* moment, and the call returns false without an error.
C14_ReapOnlyExpired ==
    [][\A p \in Procs :
          (/\ calls.race
           /\ calls'.race
           /\ calls.procs[p].op = "is_blocked"
           /\ calls.procs[p].pc = "delete"
           /\ calls'.procs[p].pc # "delete") =>
              /\ calls'.procs[p].pc = "done"
              /\ calls'.procs[p].ret = FALSE
              /\ \A r \in BlockedIP \ BlockedIP' :
                    r.expires_at # None /\ now > r.expires_at]_vars

----------------------------------------------------------------------------
(* The periodic tasks *)

\* C15: when a read of the log fails during a scan (the Rule A query or one of
\* the three Rule B queries) the scan is aborted with no partial flags: the
\* flags after the failed run are the flags before it.
C15_FailedScanLeavesNoFlags ==
    [][last'.op = "detect_anomalies raises" => SuspiciousIP' = SuspiciousIP]_vars

\* C20: flags are monotonic: no step deletes a flag or changes its ip, reason,
\* request_count or flagged_at; resolved only goes from false to true, and only
\* in a run of the auto-blocker.
C20_FlagsMonotonic ==
    [][/\ Len(SuspiciousIP') >= Len(SuspiciousIP)
       /\ \A i \in 1..Len(SuspiciousIP) :
             /\ SuspiciousIP'[i].ip_address = SuspiciousIP[i].ip_address
             /\ SuspiciousIP'[i].reason = SuspiciousIP[i].reason
             /\ SuspiciousIP'[i].request_count = SuspiciousIP[i].request_count
             /\ SuspiciousIP'[i].flagged_at = SuspiciousIP[i].flagged_at
             /\ SuspiciousIP[i].is_resolved => SuspiciousIP'[i].is_resolved
             /\ SuspiciousIP'[i].is_resolved # SuspiciousIP[i].is_resolved =>
                   last'.op = "auto_block_suspicious_ips"]_vars

\* the retention prune has just deleted rows of the log while the flags raised
\* from them, resolved ones and unresolved ones, are all there
C20_Witness ==
    /\ last.op = "cleanup_old_logs"
    /\ last.ret > 0
    /\ \E i, j \in 1..Len(SuspiciousIP) :
          /\ SuspiciousIP[i].is_resolved
          /\ ~SuspiciousIP[j].is_resolved
          /\ SuspiciousIP[i].flagged_at < now - RetentionHours
          /\ SuspiciousIP[j].flagged_at < now - RetentionHours

----------------------------------------------------------------------------
(* The views *)

\* C16: a block() call through the public interface with a missing or
\* malformed ip is rejected before any write: no entry is created or modified.
C16_MalformedIpRejected ==
    [][(last'.op = "block_ip_api" /\ last'.ip_address \in {Missing, Malformed}) =>
          /\ last'.status = 400
          /\ BlockedIP' = BlockedIP]_vars

\* C19: every read path treats an expired entry as absent: the blocked count
\* of stats() is the number of ips for which is_blocked would return true.
C19_StatsCountInForce ==
    [][last'.op = "ip_statistics" =>
          last'.ret.blocked_ips =
              Cardinality({r.ip_address : r \in InForce(BlockedIP, now)})]_vars

----------------------------------------------------------------------------
(* The attempts recorded at the gate *)

\* the attempts recorded against the entry of ip
AttemptsOf(attempts, ip) ==
    {i \in 1..Len(attempts) : attempts[i].blocked_ip = ip}

\* C17: every AttemptRecord references a BlockEntry that exists: when an entry
\* is deleted (by unblock, by the reaping of is_blocked, by remove_blocks) its
\* attempts are deleted with it, and a later block() of the ip starts with no
\* attempts.
C17_AttemptsCascade ==
    /\ [](\A i \in 1..Len(BlockedAttempt) :
            RowsOf(BlockedIP, BlockedAttempt[i].blocked_ip) # {})
    /\ [][/\ LET gone == {ip \in IPs : /\ RowsOf(BlockedIP, ip) # {}
                                       /\ RowsOf(BlockedIP', ip) = {}}
                 owned == {i \in 1..Len(BlockedAttempt) :
                              BlockedAttempt[i].blocked_ip \in gone}
             IN  gone # {} =>
                    /\ \A ip \in gone : AttemptsOf(BlockedAttempt', ip) = {}
                    /\ Len(BlockedAttempt') = Len(BlockedAttempt) - Cardinality(owned)
          /\ (last'.op = "block_ip" /\ last'.created) =>
                AttemptsOf(BlockedAttempt', last'.ip) = {}]_vars

\* is_blocked has just reaped an expired entry and its two attempts with it,
\* while the attempt against the other ip's entry is still there
C17_Witness ==
    /\ last.op = "is_blocked"
    /\ last.ret = FALSE
    /\ \E r \in last.found : r.expires_at # None /\ now > r.expires_at
    /\ last.attempts = 3
    /\ Len(BlockedAttempt) = 1
    /\ BlockedAttempt[1].blocked_ip # last.ip

\* C18: check_and_record_attempt(ip, path) returns Deny exactly when
\* is_blocked(ip) is true; a denied call appends exactly one AttemptRecord with
\* the path requested and the current time to the ip's entry, a permitted call
\* appends none; so the attempts are in request order.
C18_GateRecordsAttempts ==
    /\ [](\A i, j \in 1..Len(BlockedAttempt) :
            i < j => BlockedAttempt[i].timestamp <= BlockedAttempt[j].timestamp)
    /\ [][last'.op = "check_and_record_attempt" =>
            LET ip == last'.ip
                active == InForce(RowsOf(BlockedIP, ip), now)
            IN  /\ last'.ret = IF active # {} THEN "Deny" ELSE "Permit"
                /\ active # {} =>
                      BlockedAttempt' =
                          Append(BlockedAttempt,
                                 [blocked_ip |-> ip, path |-> last'.path, timestamp |-> now])
                /\ active = {} =>
                      /\ Len(BlockedAttempt') <= Len(BlockedAttempt)
                      /\ AttemptsOf(BlockedAttempt', ip) = {}]_vars

\* the third request of a blocked ip has just been denied: three attempts, their
\* paths and times in the order of the requests
C18_Witness ==
    /\ last.op = "check_and_record_attempt"
    /\ last.ret = "Deny"
    /\ Len(BlockedAttempt) = 3
    /\ \A i \in 1..3 : BlockedAttempt[i].blocked_ip = last.ip
    /\ BlockedAttempt[1].path = path_admin_x
    /\ BlockedAttempt[2].path = path_home
    /\ BlockedAttempt[3].path = path_admin_x
    /\ BlockedAttempt[1].timestamp < BlockedAttempt[3].timestamp
    /\ BlockedAttempt[3].timestamp = now

----------------------------------------------------------------------------
(* The auto-blocker and the admin's extend_24h on existing entries *)

\* C21: run_auto_block() never modifies an active entry: an ip whose entry is
\* in force when the run examines it keeps the entry's reason, issuer and
\* expiry; only an absent or expired entry is replaced, by a 24-hour System
\* block.
C21_AutoBlockKeepsActive ==
    [][last'.op = "auto_block_suspicious_ips" =>
          \A ip \in IPs :
              /\ InForce(RowsOf(BlockedIP, ip), now) # {} =>
                    RowsOf(BlockedIP', ip) = RowsOf(BlockedIP, ip)
              /\ RowsOf(BlockedIP', ip) # RowsOf(BlockedIP, ip) =>
                    /\ InForce(RowsOf(BlockedIP, ip), now) = {}
                    /\ \A r \in RowsOf(BlockedIP', ip) :
                          /\ r.blocked_by = "System"
                          /\ r.expires_at = now + 24]_vars

\* a run has examined an ip with three unresolved flags whose permanent manual
\* block is as it was, and has replaced nothing
C21_Witness ==
    /\ last.op = "auto_block_suspicious_ips"
    /\ last.ret = 0
    /\ \E ip \in IPs :
          /\ Cardinality(Unresolved(ip)) >= 3
          /\ RowsOf(BlockedIP, ip) =
                {[ip_address |-> ip, reason |-> "abuse", blocked_by |-> "admin",
                  expires_at |-> None]}

\* C22: extend_24h extends every selected block by 24 hours: no block expires
\* earlier than before (a permanent block counting as never expiring), every
\* selected temporary block expires exactly 24 hours later, and the count
\* reported is the number of selected blocks.
C22_ExtendNeverShortens ==
    [][last'.op = "extend_24h" =>
          LET changed == {ip \in IPs : RowsOf(BlockedIP', ip) # RowsOf(BlockedIP, ip)}
          IN  /\ \A ip \in IPs :
                    \A r \in RowsOf(BlockedIP, ip) :
                        /\ Cardinality(RowsOf(BlockedIP', ip)) = 1
                        /\ \A e \in RowsOf(BlockedIP', ip) :
                              /\ r.expires_at = None => e.expires_at = None
                              /\ r.expires_at # None =>
                                    e.expires_at \in {r.expires_at, r.expires_at + 24}
              /\ last'.ret = Cardinality(changed)]_vars

====
